---- MODULE Spec2Model ----
(***************************************************************************)
(* Renderer and preload glue of the mod assistant:                         *)
(*   - the savegame detail window (renderer/renderJS/savegame_ui.js),      *)
(*   - the notes window and its localization relay (renderJS/notes_ui.js), *)
(*   - the preload bridges (unnamed/part_000).                             *)
(* Each window is a single-threaded event loop: every handler below is one *)
(* atomic action.                                                          *)
(***************************************************************************)
EXTENDS Integers, Sequences, FiniteSets, TLC

VARIABLES
    \* ---- savegame window (savegame_ui.js) ----
    thisCollection,   \* let thisCollection (line 11)
    selectList,       \* const selectList    (lines 12-17)
    selectCount,      \* const selectCount   (lines 18-28)
    modList,          \* children of the DOM element #modList
    quantity,         \* text of the .quantity element of each check_savegame_* label
    checked,          \* the filter checkboxes that are checked
    collectionHeader, \* #collection_name / #collection_location
    getTextSent,      \* payload of the last l10n request sent by processL10N()
    lastSnap,         \* history: the snapshot of the last fromMain_saveInfo push
    passDetail,       \* history: the thisModDetail records built by the last pass
    passHTML,         \* history: the local modSetHTML of the last pass
    passResult,       \* history: how the last pass ended
    filtered          \* history: clientChangeFilter ran since the last change of
                      \*          a checkbox or of #modList

sgVars == << thisCollection, selectList, selectCount, modList, quantity, checked,
             collectionHeader, getTextSent, lastSnap, passDetail, passHTML, passResult,
             filtered >>

VARIABLES
    \* ---- preload bridge (unnamed/part_000, lines 73-104) ----
    listeners,        \* the listeners registered with ipcRenderer.on, in order
    receiveCalls,     \* history: the calls of l10n.receive / mods.receive so far
    invoked,          \* history: the calls whose callback has been invoked
    delivered         \* history: the channels the host has sent a message on

bridgeVars == << listeners, receiveCalls, invoked, delivered >>

VARIABLES
    \* ---- localization relay (notes_ui.js lines 18-32, part_000 lines 32-49) ----
    relay,            \* which window: "l10n" (notes_ui.js) or "i18n" (part_000)
    nodes,            \* the translatable DOM nodes: identifier and innerHTML
    toMain,           \* requests sent to the host and not yet answered
    inFlight,         \* responses sent by the host and not yet arrived
    hostLang,         \* the language the host translates to
    refreshes,        \* number of refreshes sent
    arrived           \* history: the responses in their order of arrival

l10nVars == << relay, nodes, toMain, inFlight, hostLang, refreshes, arrived >>

VARIABLES
    \* ---- notes window (notes_ui.js lines 16, 34-53) ----
    notes_thisCollection, \* let thisCollection (line 16)
    notes_header,         \* #collection_name
    inputValue,           \* value of each input element, by id
    notes_getTextSent,    \* payload of the last l10n request of the window
    setNoteSent,          \* the setNote messages sent to the host, in order
    lastPushed,           \* history: the collection of the last fromMain_collectionName
    setNoteCalls          \* history: each call of clientSetNote: its id, the value of
                          \*          the field and the last collection pushed, then

notesVars == << notes_thisCollection, notes_header, inputValue, notes_getTextSent,
                setNoteSent, lastPushed, setNoteCalls >>

vars == << sgVars, bridgeVars, l10nVars, notesVars >>

Null      == "null"
Undefined == "undefined"

-----------------------------------------------------------------------------
(* Mod names are strings; they are modelled as sequences of UTF-16 code    *)
(* units so that sort(), startsWith() and endsWith() are computed.         *)

alpha    == << 97, 108, 112, 104, 97 >>
beta_csv == << 98, 101, 116, 97, 46, 99, 115, 118 >>
pdlc_x   == << 112, 100, 108, 99, 95, 120 >>
zeta     == << 122, 101, 116, 97 >>

ModNames == { alpha, beta_csv, pdlc_x, zeta }

startsWith(s, p) == Len(s) >= Len(p) /\ SubSeq(s, 1, Len(p)) = p
endsWith(s, p)   == Len(s) >= Len(p) /\ SubSeq(s, Len(s) - Len(p) + 1, Len(s)) = p

dot_csv == << 46, 99, 115, 118 >>
pdlc_   == << 112, 100, 108, 99, 95 >>

\* The default comparison of Array.prototype.sort: code unit by code unit,
\* a proper prefix first.
RECURSIVE StrLess(_, _)
StrLess(a, b) ==
    IF b = << >> THEN FALSE
    ELSE IF a = << >> THEN TRUE
    ELSE IF Head(a) # Head(b) THEN Head(a) < Head(b)
    ELSE StrLess(Tail(a), Tail(b))

RECURSIVE sort(_)
sort(S) ==
    IF S = {} THEN << >>
    ELSE LET m == CHOOSE x \in S : \A y \in S \ {x} : StrLess(x, y)
         IN  << m >> \o sort(S \ {m})

-----------------------------------------------------------------------------
(* Input snapshots of the savegame window.                                 *)

Collections == { "col_a" }

Versions == { "1.0.0.0", "1.0.0.1" }

\* The uuid of an installed file and the id of a mod hub record are strings.
uuidOf(n) ==
    CASE n = alpha    -> "uuid_alpha"
      [] n = beta_csv -> "uuid_beta_csv"
      [] n = pdlc_x   -> "uuid_pdlc_x"
      [] n = zeta     -> "uuid_zeta"

\* savegame.mapMod when the savegame names no map mod: null, which equals no
\* mod name (no mod name is empty).
NullName == << >>

\* thisModDetail.usedBy is null or the savegame's farms Set.
UsedByNull   == [ isNull |-> TRUE,  farms |-> {} ]
UsedBySet(f) == [ isNull |-> FALSE, farms |-> f ]

\* An installed mod of the collection (the fields the handler reads).
InstalledEntries(n) ==
    [ shortName : {n}, storeItems : {0, 1}, scriptFiles : {0, 1},
      version : Versions, uuid : {Null, uuidOf(n)} ]

\* A mod recorded by the savegame.
SavedEntries == [ version : Versions, farms : { {}, {"farm1"} } ]

-----------------------------------------------------------------------------
(* fromMain_saveInfo: the derivation of one status record.                 *)

\* lines 75-86: the fresh record of a name.
NewDetail(thisMod, modCollect) ==
    [ version         |-> Null,
      scriptOnly      |-> FALSE,
      isLoaded        |-> FALSE,
      isUsed          |-> FALSE,
      isPresent       |-> FALSE,
      isDLC           |-> FALSE,
      usedBy          |-> UsedByNull,
      versionMismatch |-> FALSE,
      isModHub        |-> thisMod \in modCollect.modHub ]

\* lines 88-91
DlcStep(d, thisMod) ==
    IF startsWith(thisMod, pdlc_)
    THEN [d EXCEPT !.isDLC = TRUE, !.isPresent = TRUE]
    ELSE d

\* lines 93-96
MapModStep(d, thisMod, savegame) ==
    IF thisMod = savegame.mapMod
    THEN [d EXCEPT !.isUsed = TRUE, !.isLoaded = TRUE]
    ELSE d

\* lines 98-107
SavegameStep(d, thisMod, savegame) ==
    IF thisMod \in DOMAIN savegame.mods
    THEN LET sm == savegame.mods[thisMod]
             d1 == [d EXCEPT !.version = sm.version, !.isLoaded = TRUE]
         IN  IF Cardinality(sm.farms) > 0
             THEN [d1 EXCEPT !.isUsed = TRUE, !.usedBy = UsedBySet(sm.farms)]
             ELSE d1
    ELSE d

\* lines 111-114
ScriptOnlyStep(d, have) ==
    IF have.storeItems < 1 /\ have.scriptFiles > 0
    THEN [d EXCEPT !.scriptOnly = TRUE,
                   !.isUsed = IF d.isLoaded THEN TRUE ELSE d.isUsed]
    ELSE d

\* lines 116-120 without the else branch: versions are never compared
VersionStep_noCompare(d, have) ==
    IF d.version = Null THEN [d EXCEPT !.version = have.version] ELSE d

\* lines 116-120
VersionStep(d, have) ==
    IF d.version = Null
    THEN [d EXCEPT !.version = have.version]
    ELSE IF d.version # have.version
         THEN [d EXCEPT !.versionMismatch = TRUE]
         ELSE d

\* lines 108-122
InstalledStep(d, thisMod, haveModSet) ==
    IF thisMod \in DOMAIN haveModSet
    THEN VersionStep(ScriptOnlyStep([d EXCEPT !.isPresent = TRUE],
                                    haveModSet[thisMod]),
                     haveModSet[thisMod])
    ELSE d

\* lines 124-128 left out: only lines 93-96 treat the map mod
MapModOverride_skipped(d, thisMod, savegame) == d

\* lines 124-128
MapModOverride(d, thisMod, savegame) ==
    IF thisMod = savegame.mapMod
    THEN [d EXCEPT !.isUsed = TRUE, !.isLoaded = TRUE, !.usedBy = UsedByNull]
    ELSE d

\* lines 75-128
DeriveDetail(thisMod, modCollect, haveModSet) ==
    LET savegame == modCollect.thisSaveGame
    IN  MapModOverride(
          InstalledStep(
            SavegameStep(
              MapModStep(
                DlcStep(NewDetail(thisMod, modCollect), thisMod),
                thisMod, savegame),
              thisMod, savegame),
            thisMod, haveModSet),
          thisMod, savegame)

\* line 130: haveModSet?.[thisMod]?.uuid
UuidFor(thisMod, haveModSet) ==
    IF thisMod \in DOMAIN haveModSet THEN haveModSet[thisMod].uuid ELSE Undefined

\* the template literal `${thisCollection}--${thisUUID}`
CompositeKey(collection, uuid) == << collection, uuid >>

\* lines 132-145
PushSelect(list, d, thisUUID, collection) ==
    IF thisUUID # Undefined /\ thisUUID # Null
    THEN LET k == CompositeKey(collection, thisUUID)
         IN  [ unused   |-> IF d.isUsed = FALSE
                            THEN Append(list.unused, k) ELSE list.unused,
               inactive |-> IF d.isLoaded = FALSE
                            THEN Append(list.inactive, k) ELSE list.inactive,
               nohub    |-> IF d.isModHub = FALSE
                            THEN Append(list.nohub, k) ELSE list.nohub,
               active   |-> IF d.isLoaded = TRUE
                            THEN Append(list.active, k) ELSE list.active ]
    ELSE list

-----------------------------------------------------------------------------
(* makeLine (lines 169-218).                                               *)

\* lines 174-190
ColorClass(mod) ==
    IF ~mod.isPresent THEN "list-group-item-danger"
    ELSE IF mod.versionMismatch THEN "list-group-item-info"
    ELSE IF mod.isUsed THEN "list-group-item-success"
    ELSE IF mod.isLoaded THEN "list-group-item-warning"
    ELSE "list-group-item-secondary"

\* line 170
badges == << "versionMismatch", "scriptOnly", "isUsed", "isLoaded" >>

\* String.prototype.toLowerCase on the names of line 170
toLowerCase(b) ==
    CASE b = "versionMismatch" -> "versionmismatch"
      [] b = "scriptOnly"      -> "scriptonly"
      [] b = "isUsed"          -> "isused"
      [] b = "isLoaded"        -> "isloaded"

\* lines 198-206, the badges pushed by the loop over line 170
RECURSIVE FlagBadges(_, _)
FlagBadges(mod, bs) ==
    IF bs = << >> THEN << >>
    ELSE (IF mod[Head(bs)] = TRUE THEN << toLowerCase(Head(bs)) >> ELSE << >>)
         \o FlagBadges(mod, Tail(bs))

\* lines 192-206: displayBadge (the first component of each pair)
DisplayBadge(mod) ==
       (IF ~mod.isModHub /\ ~mod.isDLC THEN << "nohub" >>    ELSE << >>)
    \o (IF mod.isDLC                   THEN << "dlc" >>      ELSE << >>)
    \o (IF ~mod.isPresent              THEN << "missing" >>  ELSE << >>)
    \o (IF ~mod.isUsed                 THEN << "unused" >>   ELSE << >>)
    \o (IF ~mod.isLoaded               THEN << "inactive" >> ELSE << >>)
    \o FlagBadges(mod, badges)

\* lines 193-202 with the increment of line 194 left out
CountBadges_noMissing(mod, count) ==
    [ count EXCEPT
        !.dlc        = IF mod.isDLC           THEN @ + 1 ELSE @,
        !.scriptonly = IF mod.scriptOnly      THEN @ + 1 ELSE @,
        !.isused     = IF mod.isUsed          THEN @ + 1 ELSE @,
        !.isloaded   = IF mod.isLoaded        THEN @ + 1 ELSE @ ]

\* lines 193-202: the increments of selectCount made while the badges are collected
CountBadges(mod, count) ==
    [ count EXCEPT
        !.dlc        = IF mod.isDLC           THEN @ + 1 ELSE @,
        !.missing    = IF ~mod.isPresent      THEN @ + 1 ELSE @,
        !.scriptonly = IF mod.scriptOnly      THEN @ + 1 ELSE @,
        !.isused     = IF mod.isUsed          THEN @ + 1 ELSE @,
        !.isloaded   = IF mod.isLoaded        THEN @ + 1 ELSE @ ]

\* lines 208-217: the instantiated savegame_mod template
ModLine(name, mod, singleFarm, hubID) ==
    [ template      |-> "savegame_mod",
      colorClass    |-> ColorClass(mod),
      hubID         |-> hubID,
      hubIDHide     |-> IF hubID # Undefined THEN "" ELSE "d-none",
      name          |-> name,
      hideShowFarms |-> IF ~mod.usedBy.isNull /\ ~singleFarm THEN "" ELSE "d-none",
      farms         |-> IF ~mod.usedBy.isNull THEN mod.usedBy.farms ELSE {},
      badges        |-> DisplayBadge(mod),
      errors        |-> << >>,
      dnone         |-> FALSE ]

\* lines 60-64: the instantiated savegame_error template
ErrorLine(errorList) ==
    [ template      |-> "savegame_error",
      colorClass    |-> "",
      hubID         |-> Undefined,
      hubIDHide     |-> "",
      name          |-> NullName,
      hideShowFarms |-> "",
      farms         |-> {},
      badges        |-> << >>,
      errors        |-> errorList,
      dnone         |-> FALSE ]

\* makeLine: the html it returns and selectCount as it leaves it
makeLine(name, mod, singleFarm, hubID, count) ==
    [ html |-> ModLine(name, mod, singleFarm, hubID), count |-> CountBadges(mod, count) ]

-----------------------------------------------------------------------------
(* fromMain_saveInfo: the pass (lines 39-159).                             *)

\* lines 45-48
ResetList(list) ==
    [ inactive |-> << >>, unused |-> << >>, nohub |-> << >>, active |-> << >> ]

\* lines 50-58
ResetCount(count) ==
    [ dlc |-> 0, missing |-> 0, scriptonly |-> 0, isloaded |-> 0, isused |-> 0,
      inactive |-> 0, unused |-> 0, nohub |-> 0, active |-> 0 ]

\* line 74 without the test: the loop never ends the handler
EndsPass_never(thisMod) == FALSE

\* line 74: the test that ends the handler
EndsPass(thisMod) == endsWith(thisMod, dot_csv)

\* line 85 / line 147: modCollect.modHub.list.mods[thisMod]
HubIdFor(thisMod, modCollect) ==
    IF thisMod \in modCollect.modHub THEN "hubid" ELSE Undefined

\* lines 75-147: one iteration that reaches its end
LoopBody(acc, thisMod, modCollect, haveModSet, collection) ==
    LET d    == DeriveDetail(thisMod, modCollect, haveModSet)
        line == makeLine(thisMod, d, modCollect.thisSaveGame.singleFarm,
                         HubIdFor(thisMod, modCollect), acc.count)
    IN  [ list     |-> PushSelect(acc.list, d, UuidFor(thisMod, haveModSet), collection),
          count    |-> line.count,
          html     |-> Append(acc.html, line.html),
          detail   |-> Append(acc.detail, [ name |-> thisMod, mod |-> d ]),
          returned |-> FALSE ]

\* lines 73-148
RECURSIVE RenderLoop(_, _, _, _, _)
RenderLoop(names, acc, modCollect, haveModSet, collection) ==
    IF names = << >> THEN acc
    ELSE IF EndsPass(Head(names)) THEN [acc EXCEPT !.returned = TRUE]
    ELSE RenderLoop(Tail(names),
                    LoopBody(acc, Head(names), modCollect, haveModSet, collection),
                    modCollect, haveModSet, collection)

\* lines 66-71
fullModSet(modCollect) == DOMAIN modCollect.mods \cup DOMAIN modCollect.thisSaveGame.mods

\* line 230 (the check_savegame_* boxes and their labels)
filters == << "dlc", "missing", "scriptonly", "isloaded", "isused", "inactive",
              "unused", "nohub" >>

Range(f) == { f[i] : i \in DOMAIN f }

\* lines 152-155
ListLengths(count, list) ==
    [ count EXCEPT !.nohub    = Len(list.nohub),
                   !.inactive = Len(list.inactive),
                   !.unused   = Len(list.unused),
                   !.active   = Len(list.active) ]

\* lines 161-167
updateCounts(count) == [ labelName \in Range(filters) |-> count[labelName] ]

\* the names of the l10n elements below #modList, which processL10N() collects
L10nNames(html) ==
    UNION { Range(html[i].badges) \cup { e[1] : e \in Range(html[i].errors) }
            : i \in DOMAIN html }

\* lines 39-64: the state of the pass when the loops start
PassStart(list, count, modCollect) ==
    [ list     |-> ResetList(list),
      count    |-> ResetCount(count),
      html     |-> IF Len(modCollect.thisSaveGame.errorList) > 0
                   THEN << ErrorLine(modCollect.thisSaveGame.errorList) >>
                   ELSE << >>,
      detail   |-> << >>,
      returned |-> FALSE ]

-----------------------------------------------------------------------------------------------------------------------------------------------------------------------------------------------------------------------------
(* The snapshots pushed by the host. One mod (alpha) takes every           *)
(* combination of installed entry and savegame entry, amid each of the     *)
(* arrangements of the other names in Scenes; the arrangements that hold a *)
(* .csv name (CsvScenes) take fewer combinations of it.                    *)

Inst(n, store, scripts, v, u) ==
    [ shortName |-> n, storeItems |-> store, scriptFiles |-> scripts,
      version |-> v, uuid |-> u ]

Saved(n, v, f) == [ name |-> n, version |-> v, farms |-> f ]

ModDescs == { << 1, 0 >>, << 0, 1 >> }

SubjectInstalled ==
    { {} } \cup { { Inst(alpha, md[1], md[2], v, u) } :
                  md \in ModDescs, v \in Versions, u \in { Null, uuidOf(alpha) } }

SubjectSaved ==
    { {} } \cup { { Saved(alpha, v, f) } : v \in Versions, f \in { {}, {"farm1"} } }

NoErrors == << >>
OneError == << << "SAVE_ERROR_NO_FARMS", "farms.xml" >> >>

Scenes ==
    { [ inst |-> {}, save |-> {}, errorList |-> NoErrors, singleFarm |-> FALSE ],
      [ inst |-> {}, save |-> { Saved(zeta, "1.0.0.0", {}) },
        errorList |-> OneError, singleFarm |-> TRUE ],
      [ inst |-> { Inst(pdlc_x, 1, 0, "1.0.0.0", uuidOf(pdlc_x)),
                   Inst(zeta, 0, 1, "1.0.0.0", uuidOf(zeta)) },
        save |-> { Saved(pdlc_x, "1.0.0.0", {"farm1"}) },
        errorList |-> NoErrors, singleFarm |-> FALSE ] }

CsvInstalled == { {}, { Inst(alpha, 1, 0, "1.0.0.0", uuidOf(alpha)) } }

CsvSaved == { {}, { Saved(alpha, "1.0.0.1", {"farm1"}) } }

CsvScenes ==
    { [ inst |-> { Inst(zeta, 1, 0, "1.0.0.0", uuidOf(zeta)) },
        save |-> { Saved(beta_csv, "1.0.0.0", {}), Saved(zeta, "1.0.0.0", {"farm1"}) },
        errorList |-> NoErrors, singleFarm |-> FALSE ] }

\* modCollect.modList[thisCollection].mods, keyed by short name
ModsOf(E) ==
    [ n \in { e.shortName : e \in E } |->
        CHOOSE e \in E : e.shortName = n ]

\* savegame.mods
SavedOf(E) ==
    [ n \in { e.name : e \in E } |->
        LET e == CHOOSE x \in E : x.name = n
        IN  [ version |-> e.version, farms |-> e.farms ] ]

HubLists == { {}, { alpha } }

MapMods == { NullName, alpha }

Family(installed, saved, scenes, hubs) ==
    { [ mods         |-> ModsOf(i \cup sc.inst),
        thisSaveGame |-> [ mods       |-> SavedOf(sv \cup sc.save),
                           mapMod     |-> m,
                           errorList  |-> sc.errorList,
                           singleFarm |-> sc.singleFarm ],
        modHub       |-> h ]
      : i \in installed, sv \in saved, sc \in scenes, m \in MapMods, h \in hubs }

Snapshots ==
    Family(SubjectInstalled, SubjectSaved, Scenes, HubLists)
      \cup Family(CsvInstalled, CsvSaved, CsvScenes, { {} })

-----
(* The savegame window.                                                    *)

SavegameIdle ==
    /\ thisCollection = Null
    /\ selectList = ResetList(<< >>)
    /\ selectCount = ResetCount(<< >>)
    /\ modList = << >>
    /\ quantity = [ l \in Range(filters) |-> 0 ]
    /\ checked = {}
    /\ collectionHeader = [ name |-> "", location |-> "" ]
    /\ getTextSent = {}
    /\ lastSnap = Null
    /\ passDetail = << >>
    /\ passHTML = << >>
    /\ passResult = "none"
    /\ filtered = FALSE

\* lines 30-37
fromMain_collectionName(collectKey) ==
    /\ thisCollection' = collectKey
    /\ collectionHeader' = [ name |-> << "name", collectKey >>,
                              location |-> << "folder", collectKey >> ]
    /\ getTextSent' = L10nNames(modList)
    /\ UNCHANGED << selectList, selectCount, modList, quantity, checked,
                    lastSnap, passDetail, passHTML, passResult, filtered >>
    /\ UNCHANGED << bridgeVars, l10nVars, notesVars >>

\* lines 39-159
fromMain_saveInfo(modCollect) ==
    /\ lastSnap' = modCollect
    /\ UNCHANGED << thisCollection, collectionHeader, checked >>
    /\ \E start \in { PassStart(selectList, selectCount, modCollect) } :
         IF thisCollection = Null
         THEN \* line 66: modCollect.modList[null] is undefined, .mods throws
              /\ selectList' = start.list
              /\ selectCount' = start.count
              /\ passDetail' = << >>
              /\ passHTML' = start.html
              /\ passResult' = "threw"
              /\ UNCHANGED << modList, quantity, getTextSent, filtered >>
         ELSE \E end \in { RenderLoop(sort(fullModSet(modCollect)), start, modCollect,
                                      modCollect.mods, thisCollection) } :
                /\ selectList' = end.list
                /\ passDetail' = end.detail
                /\ passHTML' = end.html
                /\ IF end.returned
                   THEN \* line 74
                        /\ selectCount' = end.count
                        /\ passResult' = "returned"
                        /\ UNCHANGED << modList, quantity, getTextSent, filtered >>
                   ELSE \* lines 150-158
                        /\ modList' = end.html
                        /\ selectCount' = ListLengths(end.count, end.list)
                        /\ quantity' = updateCounts(selectCount')
                        /\ getTextSent' = L10nNames(end.html)
                        /\ passResult' = "done"
                        /\ filtered' = FALSE
    /\ UNCHANGED << bridgeVars, l10nVars, notesVars >>

\* a click on the checkbox check_savegame_<f>
ToggleFilter(f) ==
    /\ checked' = IF f \in checked THEN checked \ {f} ELSE checked \cup {f}
    /\ filtered' = FALSE
    /\ UNCHANGED << thisCollection, selectList, selectCount, modList, quantity,
                    collectionHeader, getTextSent, lastSnap, passDetail, passHTML,
                    passResult >>
    /\ UNCHANGED << bridgeVars, l10nVars, notesVars >>

\* line 228: the number of checked .filter_only boxes (the check_savegame_* boxes)
filtersActive == Cardinality(checked)

\* line 235
activeFilters == SelectSeq(filters, LAMBDA key : key \in checked)

\* lines 238-244 stopping at the first badge found: OR instead of AND
allBadgesFound_any(modItem, active) ==
    \E i \in DOMAIN active : active[i] \in Range(modItem.badges)

\* lines 238-244
allBadgesFound(modItem, active) ==
    \A i \in DOMAIN active : active[i] \in Range(modItem.badges)

\* lines 233, 245: classList.remove / classList.add of d-none
SetHidden(modItem, hide) == [ modItem EXCEPT !.dnone = hide ]

\* lines 227-248; the .mod-item elements are the savegame_mod entries
clientChangeFilter ==
    /\ modList' =
         [ i \in DOMAIN modList |->
             IF modList[i].template # "savegame_mod" THEN modList[i]
             ELSE IF filtersActive = 0 THEN SetHidden(modList[i], FALSE)
             ELSE SetHidden(modList[i], ~allBadgesFound(modList[i], activeFilters)) ]
    /\ filtered' = TRUE
    /\ UNCHANGED << thisCollection, selectList, selectCount, quantity, checked,
                    collectionHeader, getTextSent, lastSnap, passDetail, passHTML,
                    passResult >>
    /\ UNCHANGED << bridgeVars, l10nVars, notesVars >>

\* lines 39-159 run in a window just constructed (collection already named):
\* what the handler leaves behind for modCollect alone
FreshPass(modCollect, collection) ==
    LET end == RenderLoop(sort(fullModSet(modCollect)),
                          PassStart(ResetList(<< >>), ResetCount(<< >>), modCollect),
                          modCollect, modCollect.mods, collection)
        cnt == IF end.returned THEN end.count ELSE ListLengths(end.count, end.list)
    IN  [ list     |-> end.list,
          count    |-> cnt,
          modList  |-> IF end.returned THEN << >> ELSE end.html,
          quantity |-> IF end.returned THEN [ l \in Range(filters) |-> 0 ]
                       ELSE updateCounts(cnt),
          detail   |-> end.detail,
          html     |-> end.html,
          returned |-> end.returned ]

\* the snapshots rendered before the filters are used
FilterSnapshots == Family(CsvInstalled, CsvSaved, Scenes, { {} })

\* the savegame window after fromMain_collectionName and one completed
\* fromMain_saveInfo
FilterStart ==
    \E modCollect \in FilterSnapshots, c \in Collections :
      \E fresh \in { FreshPass(modCollect, c) } :
        /\ thisCollection = c
        /\ selectList = fresh.list
        /\ selectCount = fresh.count
        /\ modList = fresh.modList
        /\ quantity = fresh.quantity
        /\ checked = {}
        /\ collectionHeader = [ name |-> << "name", c >>, location |-> << "folder", c >> ]
        /\ getTextSent = L10nNames(fresh.html)
        /\ lastSnap = modCollect
        /\ passDetail = fresh.detail
        /\ passHTML = fresh.html
        /\ passResult = "done"
        /\ filtered = FALSE

NextFilter ==
    \/ \E f \in Range(filters) : ToggleFilter(f)
    \/ clientChangeFilter

NextSavegame ==
    \/ \E c \in Collections : fromMain_collectionName(c)
    \/ \E modCollect \in Snapshots : fromMain_saveInfo(modCollect)

-----------------------------------------------------------------------------
(* The preload bridge: l10n.receive and mods.receive (part_000 73-104).    *)

MaxReceive == 2

BridgeChannels ==
    { "fromMain_getText_return", "fromMain_l10n_refresh", "fromMain_confirmList",
      "fromMain_saveInfo" }

\* lines 82 and 99 without the test: every channel passes
validChannels_all(api) == BridgeChannels

\* lines 77-80 and 95-97
validChannels(api) ==
    IF api = "l10n" THEN { "fromMain_getText_return", "fromMain_l10n_refresh" }
    ELSE { "fromMain_confirmList" }

BridgeIdle ==
    /\ listeners = << >>
    /\ receiveCalls = << >>
    /\ invoked = {}
    /\ delivered = {}

\* lines 76-85 (api = "l10n") and 94-102 (api = "mods"); func is the callback of
\* this call, named by the call's index
receive(api, channel) ==
    /\ Len(receiveCalls) < MaxReceive
    /\ receiveCalls' = Append(receiveCalls, [ api |-> api, channel |-> channel ])
    /\ listeners' =
         IF channel \in validChannels(api)
         THEN Append(listeners, [ channel |-> channel, func |-> Len(receiveCalls) + 1 ])
         ELSE listeners
    /\ UNCHANGED << invoked, delivered >>
    /\ UNCHANGED << sgVars, l10nVars, notesVars >>

\* the host sends a message on a channel: ipcRenderer runs the listeners of it
ipcMessage(channel) ==
    /\ invoked' = invoked \cup { listeners[i].func :
                                   i \in { j \in DOMAIN listeners :
                                             listeners[j].channel = channel } }
    /\ delivered' = delivered \cup { channel }
    /\ UNCHANGED << listeners, receiveCalls >>
    /\ UNCHANGED << sgVars, l10nVars, notesVars >>

NextBridge ==
    \/ \E api \in { "l10n", "mods" }, channel \in BridgeChannels : receive(api, channel)
    \/ \E channel \in BridgeChannels : ipcMessage(channel)

-----------------------------------------------------------------------------
(* The localization relay.                                                 *)

MaxRefresh == 2

Languages == { "en", "de" }

\* the translatable nodes of the window: two bear the same identifier
NodeIds == { "n1", "n2", "n3" }
NodeName(n) == IF n = "n3" THEN "save_notes" ELSE "notes_title"

Relays == { "l10n", "i18n" }

\* the host's translation of an identifier
Translate(lang, id) == << lang, id >>

L10nIdle ==
    /\ relay = "l10n"
    /\ nodes = [ n \in NodeIds |-> [ name |-> NodeName(n), innerHTML |-> << >> ] ]
    /\ toMain = << >>
    /\ inFlight = {}
    /\ hostLang = "en"
    /\ refreshes = 0
    /\ arrived = << >>

\* notes_ui.js lines 20-24, part_000 lines 34-37: the identifiers in the DOM
l10nSendItems == { nodes[n].name : n \in NodeIds }

\* a set in its iteration (insertion) order, which is document order
RECURSIVE InOrder(_, _)
InOrder(order, S) ==
    IF order = << >> THEN << >>
    ELSE (IF nodes[Head(order)].name \in S
          THEN << nodes[Head(order)].name >> ELSE << >>)
         \o InOrder(Tail(order), S \ { nodes[Head(order)].name })

\* notes_ui.js lines 18-27: one message holding the set
clientGetL10NEntries ==
    /\ relay = "l10n"
    /\ refreshes < MaxRefresh
    /\ refreshes' = refreshes + 1
    /\ toMain' = Append(toMain, [ req |-> refreshes + 1, ids |-> l10nSendItems ])
    /\ UNCHANGED << relay, nodes, inFlight, hostLang, arrived >>
    /\ UNCHANGED << sgVars, bridgeVars, notesVars >>

\* part_000 lines 32-41: one message for each identifier
trigger_i18n ==
    /\ relay = "i18n"
    /\ refreshes < MaxRefresh
    /\ refreshes' = refreshes + 1
    /\ toMain' = toMain \o
         [ i \in 1..Cardinality(l10nSendItems) |->
             [ req |-> refreshes + 1,
               ids |-> { InOrder(<< "n1", "n2", "n3" >>, l10nSendItems)[i] } ] ]
    /\ UNCHANGED << relay, nodes, inFlight, hostLang, arrived >>
    /\ UNCHANGED << sgVars, bridgeVars, notesVars >>

\* the host answers the oldest request: one pair for each identifier
HostTranslate ==
    /\ toMain # << >>
    /\ inFlight' = inFlight \cup
         { [ req |-> Head(toMain).req, id |-> id, text |-> Translate(hostLang, id) ] :
           id \in Head(toMain).ids }
    /\ toMain' = Tail(toMain)
    /\ UNCHANGED << relay, nodes, hostLang, refreshes, arrived >>
    /\ UNCHANGED << sgVars, bridgeVars, notesVars >>

\* the user changes the language in the host
HostSetLanguage(lang) ==
    /\ lang # hostLang
    /\ hostLang' = lang
    /\ UNCHANGED << relay, nodes, toMain, inFlight, refreshes, arrived >>
    /\ UNCHANGED << sgVars, bridgeVars, notesVars >>

\* querySelector instead of querySelectorAll: the first node in document order
SetText_first(dom, id, text) ==
    LET first == IF dom["n1"].name = id THEN "n1"
                 ELSE IF dom["n2"].name = id THEN "n2" ELSE "n3"
    IN  IF dom[first].name = id THEN [ dom EXCEPT ![first].innerHTML = text ] ELSE dom

\* notes_ui.js line 30 / part_000 lines 45-48: querySelectorAll(...).forEach
SetText(dom, id, text) ==
    [ n \in DOMAIN dom |->
        IF dom[n].name = id THEN [ dom[n] EXCEPT !.innerHTML = text ] ELSE dom[n] ]

\* notes_ui.js lines 29-31 (relay "l10n"), part_000 lines 43-49 (relay "i18n")
fromMain_getText_return(data) ==
    /\ data \in inFlight
    /\ inFlight' = inFlight \ { data }
    /\ nodes' = SetText(nodes, data.id, data.text)
    /\ arrived' = Append(arrived, data)
    /\ UNCHANGED << relay, toMain, hostLang, refreshes >>
    /\ UNCHANGED << sgVars, bridgeVars, notesVars >>

NextL10n ==
    \/ clientGetL10NEntries
    \/ trigger_i18n
    \/ HostTranslate
    \/ \E lang \in Languages : HostSetLanguage(lang)
    \/ \E data \in inFlight : fromMain_getText_return(data)

-----------------------------------------------------------------------------
(* The notes window.                                                       *)

MaxNotes == 2

NotesCollections == { "col_a", "col_b" }

InputIds == { "notes_username", "notes_server" }

NoteValues == { "", "jack" }

\* the notes of one collection: a value for some of the fields
NotesOf == { [ notes_username |-> "jack", notes_server |-> Undefined ],
             [ notes_username |-> Undefined, notes_server |-> "" ] }

\* allNotes: the collections that have notes, and these
AllNotes ==
    UNION { [ P -> NotesOf ] : P \in SUBSET NotesCollections }

NotesIdle ==
    /\ notes_thisCollection = Null
    /\ notes_header = ""
    /\ inputValue = [ id \in InputIds |-> "" ]
    /\ notes_getTextSent = {}
    /\ setNoteSent = << >>
    /\ lastPushed = Null
    /\ setNoteCalls = << >>

\* line 35 guarded by "not yet set": only the first push names the collection
SetCollection_once(old, collection) == IF old = Null THEN collection ELSE old

\* line 35
SetCollection(old, collection) == collection

\* lines 38-44
NoteValue(id, collection, allNotes) ==
    LET thisValue == IF collection \in DOMAIN allNotes
                     THEN allNotes[collection][id] ELSE ""
    IN  IF thisValue # Undefined THEN thisValue ELSE ""

\* lines 34-47
notes_fromMain_collectionName(collection, collectionName, allNotes) ==
    /\ notes_thisCollection' = SetCollection(notes_thisCollection, collection)
    /\ notes_header' = collectionName
    /\ inputValue' = [ id \in InputIds |-> NoteValue(id, collection, allNotes) ]
    /\ notes_getTextSent' = { "notes_title", "save_notes" }
    /\ lastPushed' = collection
    /\ UNCHANGED << setNoteSent, setNoteCalls >>
    /\ UNCHANGED << sgVars, bridgeVars, l10nVars >>

\* the user types into the input with this id
UserInput(id, value) ==
    /\ inputValue[id] # value
    /\ inputValue' = [ inputValue EXCEPT ![id] = value ]
    /\ UNCHANGED << notes_thisCollection, notes_header, notes_getTextSent,
                    setNoteSent, lastPushed, setNoteCalls >>
    /\ UNCHANGED << sgVars, bridgeVars, l10nVars >>

\* line 52: the message of window.mods.setNote
SetNoteMessage(id, value, collection) ==
    [ id |-> id, value |-> value, collection |-> collection ]

\* lines 49-53
clientSetNote(id) ==
    /\ Len(setNoteSent) < MaxNotes
    /\ setNoteSent' = Append(setNoteSent,
                             SetNoteMessage(id, inputValue[id], notes_thisCollection))
    /\ setNoteCalls' = Append(setNoteCalls,
                              [ id |-> id, value |-> inputValue[id],
                                pushed |-> lastPushed ])
    /\ UNCHANGED << notes_thisCollection, notes_header, inputValue,
                    notes_getTextSent, lastPushed >>
    /\ UNCHANGED << sgVars, bridgeVars, l10nVars >>

NextNotes ==
    \/ \E c \in NotesCollections, allNotes \in AllNotes :
         notes_fromMain_collectionName(c, << "name", c >>, allNotes)
    \/ \E id \in InputIds, v \in NoteValues : UserInput(id, v)
    \/ \E id \in InputIds : clientSetNote(id)

-----------------------------------------------------------------------------------------------------------------------------------------------------
(* The specifications: one for each window.                                *)

Init == SavegameIdle /\ BridgeIdle /\ L10nIdle /\ NotesIdle

InitFilter == FilterStart /\ BridgeIdle /\ L10nIdle /\ NotesIdle

\* the relay of either window
InitL10n ==
    /\ SavegameIdle /\ BridgeIdle /\ NotesIdle
    /\ relay \in Relays
    /\ nodes = [ n \in NodeIds |-> [ name |-> NodeName(n), innerHTML |-> << >> ] ]
    /\ toMain = << >>
    /\ inFlight = {}
    /\ hostLang = "en"
    /\ refreshes = 0
    /\ arrived = << >>

Next == NextSavegame

Spec == Init /\ [][Next]_vars

SpecFilter == InitFilter /\ [][NextFilter]_vars

SpecBridge == Init /\ [][NextBridge]_vars

SpecL10n == InitL10n /\ [][NextL10n]_vars

SpecNotes == Init /\ [][NextNotes]_vars

-----------------------------------------------------------------------------
(* Properties of the savegame window.                                      *)

SelectKinds == { "unused", "inactive", "nohub", "active" }

PassRan == passResult \in { "done", "returned" }

\* C1: after the fromMain_saveInfo handler has run on any snapshot, each of
\* selectCount.unused, .inactive, .nohub and .active equals the length of the
\* selection list of the same name.
C1_CountsEqualListLengths ==
    passResult # "none" =>
        \A k \in SelectKinds : selectCount[k] = Len(selectList[k])

\* C2: after a handler run that follows an earlier one, the selection lists, the
\* selection counts, the displayed counters and the content of #modList are
\* exactly those derived from the last snapshot alone; nothing of an earlier
\* pass remains.
C2_SecondPassReplacesFirst ==
    PassRan =>
        LET fresh == FreshPass(lastSnap, thisCollection)
        IN  /\ selectList = fresh.list
            /\ selectCount = fresh.count
            /\ quantity = fresh.quantity
            /\ modList = fresh.modList

\* the names of the sorted union from the first one ending in .csv on
FromFirstCsv(names) ==
    { names[j] : j \in { j \in DOMAIN names :
                           \E i \in 1..j : endsWith(names[i], dot_csv) } }

\* C3: when the sorted union of installed and savegame names holds a name ending
\* in .csv, no name sorted at or after the first such name yields a status
\* record, a selection-list key or a rendered list entry in that pass.
C3_CsvHaltsRecordGeneration ==
    PassRan =>
        \A n \in FromFirstCsv(sort(fullModSet(lastSnap))) :
            /\ \A i \in DOMAIN passDetail : passDetail[i].name # n
            /\ \A i \in DOMAIN passHTML : passHTML[i].name # n
            /\ \A k \in SelectKinds :
                 CompositeKey(thisCollection, uuidOf(n)) \notin Range(selectList[k])

\* the union {alpha, beta.csv, zeta}: alpha has its record, zeta (installed, with
\* a uuid, and used by a farm) has none
C3_Witness ==
    /\ passResult = "returned"
    /\ fullModSet(lastSnap) = { alpha, beta_csv, zeta }
    /\ zeta \in DOMAIN lastSnap.mods
    /\ Len(passDetail) = 1 /\ passDetail[1].name = alpha

\* C6: the record derived for the name equal to savegame.mapMod has isUsed = true,
\* isLoaded = true and usedBy = null, whatever the installed entry and the
\* savegame entry of that name hold.
C6_MapModRecord ==
    PassRan =>
        \A i \in DOMAIN passDetail :
            passDetail[i].name = lastSnap.thisSaveGame.mapMod =>
                /\ passDetail[i].mod.isUsed = TRUE
                /\ passDetail[i].mod.isLoaded = TRUE
                /\ passDetail[i].mod.usedBy = UsedByNull

\* the map mod is installed and the savegame records farms for it
C6_Witness ==
    /\ passResult = "done"
    /\ lastSnap.thisSaveGame.mapMod = alpha
    /\ alpha \in DOMAIN lastSnap.mods
    /\ alpha \in DOMAIN lastSnap.thisSaveGame.mods
    /\ lastSnap.thisSaveGame.mods[alpha].farms # {}
    /\ \E i \in DOMAIN passDetail : passDetail[i].name = alpha

WithBadge(b) ==
    { i \in DOMAIN modList :
        modList[i].template = "savegame_mod" /\ b \in Range(modList[i].badges) }

\* the names installed with a uuid that is neither undefined nor null
HasUuid(n) == n \in DOMAIN lastSnap.mods /\ lastSnap.mods[n].uuid # Null

\* C10 as stated: after a pass that runs to completion, every counter with a
\* badge (nohub, dlc, missing, unused, inactive, scriptonly, isused, isloaded)
\* equals the number of rendered entries that carry that badge.
C10_EveryCounterCountsBadges ==
    passResult = "done" =>
        \A b \in Range(filters) : quantity[b] = Cardinality(WithBadge(b))

\* C10 amended: the dlc, missing, scriptonly, isused and isloaded counters equal
\* the number of rendered entries with that badge; the unused and inactive
\* counters count only the entries with that badge whose mod is installed with a
\* uuid; the nohub counter counts the installed mods with a uuid that are not on
\* the mod hub, DLC included.
C10_CountersAfterPass ==
    passResult = "done" =>
        /\ \A b \in { "dlc", "missing", "scriptonly", "isused", "isloaded" } :
             quantity[b] = Cardinality(WithBadge(b))
        /\ \A b \in { "unused", "inactive" } :
             quantity[b] =
               Cardinality({ i \in WithBadge(b) : HasUuid(modList[i].name) })
        /\ quantity["nohub"] =
             Cardinality({ i \in DOMAIN passDetail :
                             /\ HasUuid(passDetail[i].name)
                             /\ ~passDetail[i].mod.isModHub })
        /\ \A b \in Range(filters) : quantity[b] = selectCount[b]

\* a missing mod shows the unused badge and is not counted, while a script-only
\* mod is counted once
C10_Witness ==
    /\ passResult = "done"
    /\ quantity["unused"] < Cardinality(WithBadge("unused"))
    /\ quantity["scriptonly"] > 0
    /\ quantity["dlc"] > 0

\* the savegame_mod entries of #modList
ModItems == { i \in DOMAIN modList : modList[i].template = "savegame_mod" }

\* C8: after clientChangeFilter, with no filter box checked every mod entry is
\* shown; with a set F of checked boxes an entry is shown exactly when it carries
\* a badge savegame_<f> for every f in F. What was hidden before plays no part.
C8_FilterShowsAllBadges ==
    filtered =>
        \A i \in ModItems :
            modList[i].dnone = ~(\A f \in checked : f \in Range(modList[i].badges))

\* two boxes are checked; one entry carries both badges and is shown, another
\* carries only one of them and is hidden
C8_Witness ==
    /\ filtered
    /\ Cardinality(checked) = 2
    /\ \E i \in ModItems : ~modList[i].dnone
    /\ \E i \in ModItems :
         /\ modList[i].dnone
         /\ \E f \in checked : f \in Range(modList[i].badges)

-----------------------------------------------------------------------------
(* Properties of the preload bridge.                                       *)

\* C4: a call of l10n.receive or mods.receive registers a listener only when its
\* channel is in the allow-list of that function; with any other channel it
\* registers nothing and its callback is never invoked, whatever arrives.
C4_OnlyAllowListedChannelsListen ==
    \A i \in DOMAIN receiveCalls :
        LET allowed ==
              \/ /\ receiveCalls[i].api = "l10n"
                 /\ receiveCalls[i].channel \in
                      { "fromMain_getText_return", "fromMain_l10n_refresh" }
              \/ /\ receiveCalls[i].api = "mods"
                 /\ receiveCalls[i].channel = "fromMain_confirmList"
            registered ==
              Cardinality({ j \in DOMAIN listeners : listeners[j].func = i })
        IN  /\ registered = IF allowed THEN 1 ELSE 0
            /\ ~allowed => i \notin invoked

\* mods.receive was called with a channel outside its list and the host has sent
\* on that channel: nothing ran; a listed subscription of l10n.receive did run
C4_Witness ==
    /\ Len(receiveCalls) = 2
    /\ receiveCalls[1] = [ api |-> "mods", channel |-> "fromMain_saveInfo" ]
    /\ receiveCalls[2] = [ api |-> "l10n", channel |-> "fromMain_l10n_refresh" ]
    /\ "fromMain_saveInfo" \in delivered
    /\ invoked = { 2 }

-----------------------------------------------------------------------------
(* Properties of the localization relay.                                   *)

\* the text of the last response that arrived for an identifier
LastArrived(id) ==
    LET hits == { i \in DOMAIN arrived : arrived[i].id = id }
    IN  IF hits = {} THEN << >>
        ELSE arrived[CHOOSE i \in hits : \A j \in hits : j <= i].text

\* C5: under any interleaving of refreshes and responses, each response sets the
\* text of every node bearing its identifier and of no other node: a node shows
\* the text of the last response that arrived for its identifier.
C5_LastArrivalWins ==
    \A n \in NodeIds : nodes[n].innerHTML = LastArrived(nodes[n].name)

\* a response of the first refresh arrived after the response of the second for
\* the same identifier, with another text, and both nodes of it show the former
C5_Witness ==
    \E i, j \in DOMAIN arrived :
        /\ i < j
        /\ j = Len(arrived)
        /\ arrived[i].id = "notes_title" /\ arrived[j].id = "notes_title"
        /\ arrived[i].req = 2 /\ arrived[j].req = 1
        /\ arrived[i].text # arrived[j].text
        /\ nodes["n1"].innerHTML = arrived[j].text
        /\ nodes["n2"].innerHTML = arrived[j].text

-----------------------------------------------------------------------------
(* Properties of the notes window.                                         *)

\* C9: every call of clientSetNote(id) sends exactly one setNote message, with
\* the id, the value of the field at that time and the collection of the most
\* recent fromMain_collectionName push; no message carries an earlier collection.
C9_SetNoteCarriesLastCollection ==
    /\ Len(setNoteSent) = Len(setNoteCalls)
    /\ \A i \in DOMAIN setNoteCalls :
         /\ setNoteSent[i].id = setNoteCalls[i].id
         /\ setNoteSent[i].value = setNoteCalls[i].value
         /\ setNoteSent[i].collection = setNoteCalls[i].pushed

\* an edit after the first push and an edit after a later push of another
\* collection
C9_Witness ==
    /\ Len(setNoteSent) = 2
    /\ setNoteSent[1].collection = "col_a"
    /\ setNoteSent[2].collection = "col_b"
    /\ setNoteSent[2].value = "jack"
====
